---- MODULE Spec2Model ----
(***************************************************************************)
(* The hand-written authorized_keys parser of src/openssh/v2/parse.rs.     *)
(*                                                                         *)
(* Text is a sequence of one-character strings.  Slices keep the source's  *)
(* zero-based indices: input[a..] is From(input, a), input[..b] is         *)
(* UpTo(input, b).                                                         *)
(* An Option<usize> is an integer, None being NONE (-1); an Option<&char>  *)
(* is a one-character string, None being NoChar.                           *)
(***************************************************************************)
EXTENDS Integers, Sequences, FiniteSets, TLC

VARIABLES
    input,      \* the text handed to the operation under test
    src,        \* the components the text was written from (NoSrc for raw text)
    pc,         \* which operation runs next / the composite parser's state
    result      \* what the operation returned

vars == <<input, src, pc, result>>

----------------------------------------------------------------------------
(* Characters                                                              *)

Lower == <<"a","b","c","d","e","f","g","h","i","j","k","l","m",
           "n","o","p","q","r","s","t","u","v","w","x","y","z">>

Upper == <<"A","B","C","D","E","F","G","H","I","J","K","L","M",
           "N","O","P","Q","R","S","T","U","V","W","X","Y","Z">>

LowerSet == {Lower[i] : i \in DOMAIN Lower}

UpperSet == {Upper[i] : i \in DOMAIN Upper}

DigitSet == {"0","1","2","3","4","5","6","7","8","9"}

SP == " "

TAB == "\t"

LF == "\n"

CR == "\r"

FF == "\f"

QUOTE == "\""

BACKSLASH == "\\"

NONE == 0 - 1

NoChar == "none"

is_ascii_alphanumeric(c) == c \in LowerSet \cup UpperSet \cup DigitSet

is_ascii_whitespace(c) == c \in {SP, TAB, LF, FF, CR}

to_ascii_lowercase_char(c) ==
    IF c \in UpperSet
    THEN Lower[CHOOSE i \in DOMAIN Upper : Upper[i] = c]
    ELSE c

to_ascii_lowercase(s) == [i \in DOMAIN s |-> to_ascii_lowercase_char(s[i])]

----------------------------------------------------------------------------
(* Slices: input[a..], input[..b], input.get(i)                            *)

From(s, a) == SubSeq(s, a + 1, Len(s))

UpTo(s, b) == SubSeq(s, 1, b)

get(s, i) == IF i >= 0 /\ i < Len(s) THEN s[i + 1] ELSE NoChar

\* iter().position(pred): the zero-based index of the first character
\* satisfying pred, or NONE; hit[i] is pred of the i-th character.
position(hit) ==
    IF \E i \in DOMAIN hit : hit[i]
    THEN (CHOOSE i \in DOMAIN hit : hit[i] /\ \A j \in 1..(i - 1) : ~hit[j]) - 1
    ELSE NONE

----------------------------------------------------------------------------
(* ParseResult<T> = Result<(T, &[char]), ParseError>                       *)

Incomplete == [kind |-> "Incomplete", msg |-> "", arg |-> <<>>]

Unmatched(m, a) == [kind |-> "Unmatched", msg |-> m, arg |-> a]

Ok(v, r) == [ok |-> TRUE, val |-> v, rest |-> r]

Err(e) == [ok |-> FALSE, err |-> e]

MsgUnknownKeyType == "Unknown key type '{}'."

MsgTrailingChar == "Unexpected trailing character '{}' on base64 value."

MsgBase64Length == "Unexpected length of base64 value, expected a multiple of 4."

MsgOptionValueFirst == "Unexpected first character in option value."

----------------------------------------------------------------------------
(* Base64 token grammar                                                    *)

is_base64_char(c) == is_ascii_alphanumeric(c) \/ c = "/" \/ c = "+"

not_base64_char(c) == ~is_base64_char(c)

\* The length check dropped: any maximal run is accepted.
base64_length_ok_mutant(tok) == TRUE

base64_length_ok(tok) == Len(tok) % 4 = 0

parse_base64(in) ==
    LET pos == position([i \in DOMAIN in |-> not_base64_char(in[i])])
        \* for _ in 0..2 { if input.get(index + 1) == Some(&'=') { index += 1 } }
        i1 == IF get(in, pos + 1) = "=" THEN pos + 1 ELSE pos
        i2 == IF get(in, i1 + 1) = "=" THEN i1 + 1 ELSE i1
        str_end == IF pos # NONE THEN i2 ELSE Len(in)
        remainder == From(in, str_end)
        base64_string == UpTo(in, str_end)
    IN  IF remainder # <<>> /\ ~is_ascii_whitespace(remainder[1])
        THEN Err(Unmatched(MsgTrailingChar, <<remainder[1]>>))
        ELSE IF base64_length_ok(base64_string)
             THEN Ok(base64_string, remainder)
             ELSE Err(Unmatched(MsgBase64Length, <<>>))

parse_encoded_key(in) == parse_base64(in)

----------------------------------------------------------------------------
(* Texts over a set of units (a unit is a short text)                      *)

RECURSIVE Flatten(_)
Flatten(ss) == IF ss = <<>> THEN <<>> ELSE Head(ss) \o Flatten(Tail(ss))

Texts(units, n) == {Flatten(u) : u \in UNION {[1..k -> units] : k \in 0..n}}

----------------------------------------------------------------------------
(* The base64 grammar on its own                                           *)

MaxBase64Len == 6

Base64Units == {<<"A">>, <<"/">>, <<"=">>, <<SP>>, <<"#">>}

InitBase64 ==
    /\ input \in Texts(Base64Units, MaxBase64Len)
    /\ src = "NoSrc"
    /\ pc = "base64"
    /\ result = "none"

Base64 ==
    /\ pc = "base64"
    /\ result' = parse_base64(input)
    /\ pc' = "done"
    /\ UNCHANGED <<input, src>>

NextBase64 == Base64

SpecBase64 == InitBase64 /\ [][NextBase64]_vars


\* C2: a run of base64 characters followed by one or two '=' whose total
\* length is a multiple of 4, followed by whitespace or the end of input, is
\* accepted and the returned token includes the padding.
PaddedTokenAt(in, n, p) ==
    /\ n >= 1 /\ n + p <= Len(in) /\ (n + p) % 4 = 0
    /\ \A i \in 1..n : is_base64_char(in[i])
    /\ \A i \in (n + 1)..(n + p) : in[i] = "="
    /\ (Len(in) = n + p \/ is_ascii_whitespace(in[n + p + 1]))

C2_PaddingAbsorbed ==
    pc = "done" =>
        \A n \in 1..Len(input), p \in 1..2 :
            PaddedTokenAt(input, n, p) =>
                result = Ok(UpTo(input, n + p), From(input, n + p))

\* C8: a token of base64 characters whose length is not a multiple of 4,
\* followed by whitespace or the end of input, fails with the invalid-length
\* error.
BadLengthTokenAt(in, n) ==
    /\ n >= 1 /\ n <= Len(in) /\ n % 4 # 0
    /\ \A i \in 1..n : is_base64_char(in[i])
    /\ (Len(in) = n \/ is_ascii_whitespace(in[n + 1]))

C8_BadLengthRejected ==
    pc = "done" =>
        \A n \in 1..Len(input) :
            BadLengthTokenAt(input, n) =>
                result = Err(Unmatched(MsgBase64Length, <<>>))

----------------------------------------------------------------------------
(* Key-type lexer                                                          *)

EcdsaSha2NistpPrefix ==
    <<"e","c","d","s","a","-","s","h","a","2","-","n","i","s","t","p">>

ECDSA_SHA2_NISTP256 == EcdsaSha2NistpPrefix \o <<"2","5","6">>

ECDSA_SHA2_NISTP384 == EcdsaSha2NistpPrefix \o <<"3","8","4">>

ECDSA_SHA2_NISTP521 == EcdsaSha2NistpPrefix \o <<"5","2","1">>

SSH_ED25519 == <<"s","s","h","-","e","d","2","5","5","1","9">>

SSH_DSS == <<"s","s","h","-","d","s","s">>

SSH_RSA == <<"s","s","h","-","r","s","a">>

KeyType ==
    {"EcdsaSha2Nistp256", "EcdsaSha2Nistp384", "EcdsaSha2Nistp521",
     "SshEd25519", "SshDss", "SshRsa"}

\* The match without the lower-casing of the token.
normalize_key_type_mutant(s) == s

normalize_key_type(s) == to_ascii_lowercase(s)

\* impl FromStr for KeyType: Result<KeyType, ()>
from_str(s) ==
    LET l == normalize_key_type(s)
    IN  CASE l = ECDSA_SHA2_NISTP256 -> [ok |-> TRUE, val |-> "EcdsaSha2Nistp256"]
          [] l = ECDSA_SHA2_NISTP384 -> [ok |-> TRUE, val |-> "EcdsaSha2Nistp384"]
          [] l = ECDSA_SHA2_NISTP521 -> [ok |-> TRUE, val |-> "EcdsaSha2Nistp521"]
          [] l = SSH_ED25519 -> [ok |-> TRUE, val |-> "SshEd25519"]
          [] l = SSH_DSS -> [ok |-> TRUE, val |-> "SshDss"]
          [] l = SSH_RSA -> [ok |-> TRUE, val |-> "SshRsa"]
          [] OTHER -> [ok |-> FALSE, val |-> "()"]

is_space(c) == c = SP

parse_key_type(in) ==
    LET index == position([i \in DOMAIN in |-> is_space(in[i])])
        remainder == From(in, index)
        type_str == UpTo(in, index)
        key_type == from_str(type_str)
    IN  IF index # NONE
        THEN IF key_type.ok
             THEN Ok(key_type.val, remainder)
             ELSE Err(Unmatched(MsgUnknownKeyType, type_str))
        ELSE Err(Incomplete)

----------------------------------------------------------------------------
(* The key-type lexer on its own                                           *)

MaxUpper == 1

MaxTrim == 2

KnownNames ==
    {ECDSA_SHA2_NISTP256, ECDSA_SHA2_NISTP384, ECDSA_SHA2_NISTP521,
     SSH_ED25519, SSH_DSS, SSH_RSA}

to_upper_char(c) ==
    IF c \in LowerSet
    THEN Upper[CHOOSE i \in DOMAIN Lower : Lower[i] = c]
    ELSE c

\* name with the characters at the positions of mask in upper case
Cased(name, mask) ==
    [i \in DOMAIN name |-> IF i \in mask THEN to_upper_char(name[i]) ELSE name[i]]

Masks(name) ==
    {m \in SUBSET (DOMAIN name) : Cardinality(m) <= MaxUpper} \cup {DOMAIN name}

SSH_MADE_UP == <<"s","s","h","-","m","a","d","e","-","u","p">>

KeyTokens ==
    UNION {
        {Cased(name, m) : m \in Masks(name)}
        \cup {UpTo(name, Len(name) - k) : k \in 1..MaxTrim}
        \cup {name \o <<c>> : c \in {"a", "-", "2", "="}}
        \cup {<<c>> \o name : c \in {"s", "-"}}
      : name \in KnownNames }
    \cup {SSH_MADE_UP, <<>>}

KeyTypeTails == {<<>>, <<SP>>, <<SP, "A", "A", "A", "A">>, <<TAB, "A">>}

InitKeyType ==
    /\ input \in {t \o tail : t \in KeyTokens, tail \in KeyTypeTails}
    /\ src = "NoSrc"
    /\ pc = "key_type"
    /\ result = "none"

KeyTypeFromStr ==
    /\ pc = "key_type"
    /\ result' = [op |-> "from_str", out |-> from_str(input)]
    /\ pc' = "done"
    /\ UNCHANGED <<input, src>>

KeyTypeLex ==
    /\ pc = "key_type"
    /\ result' = [op |-> "parse_key_type", out |-> parse_key_type(input)]
    /\ pc' = "done"
    /\ UNCHANGED <<input, src>>

NextKeyType == KeyTypeFromStr \/ KeyTypeLex

SpecKeyType == InitKeyType /\ [][NextKeyType]_vars

\* The name each variant stands for.
KeyTypeName(kt) ==
    CASE kt = "EcdsaSha2Nistp256" -> ECDSA_SHA2_NISTP256
      [] kt = "EcdsaSha2Nistp384" -> ECDSA_SHA2_NISTP384
      [] kt = "EcdsaSha2Nistp521" -> ECDSA_SHA2_NISTP521
      [] kt = "SshEd25519" -> SSH_ED25519
      [] kt = "SshDss" -> SSH_DSS
      [] kt = "SshRsa" -> SSH_RSA

\* The variants whose name the token equals once lower-cased (at most one).
VariantsNamed(token) ==
    {kt \in KeyType : to_ascii_lowercase(token) = KeyTypeName(kt)}

\* C10: the lexer yields a KeyType for a token exactly when the lower-cased
\* token equals one of the six names, and then the matching variant; any other
\* token (a prefix or an extension of a name included) fails with the
\* unknown-key-type error naming the token.  The token of parse_key_type is
\* the text before the first space; the remainder starts at that space.
C10_KeyTypeWholeTokenMatch ==
    pc = "done" =>
        /\ result.op = "from_str" =>
              /\ result.out.ok <=> VariantsNamed(input) # {}
              /\ result.out.ok => VariantsNamed(input) = {result.out.val}
        /\ (result.op = "parse_key_type" /\ \E i \in DOMAIN input : input[i] = SP) =>
              LET idx == CHOOSE i \in DOMAIN input :
                             input[i] = SP /\ \A j \in 1..(i - 1) : input[j] # SP
                  token == SubSeq(input, 1, idx - 1)
              IN  IF VariantsNamed(token) # {}
                  THEN /\ result.out.ok
                       /\ VariantsNamed(token) = {result.out.val}
                       /\ result.out.rest = SubSeq(input, idx, Len(input))
                  ELSE result.out = Err(Unmatched(MsgUnknownKeyType, token))

\* A mixed-case spelling of a known name was lexed to its variant.
C10_Witness ==
    /\ pc = "done"
    /\ result.op = "parse_key_type"
    /\ result.out.ok
    /\ result.out.val = "SshRsa"
    /\ \E i \in 1..7 : input[i] \in UpperSet
    /\ \E i \in 1..7 : input[i] \in LowerSet


----------------------------------------------------------------------------
(* Cursor helpers                                                          *)

not_ascii_whitespace(c) == ~is_ascii_whitespace(c)

\* position(..).unwrap_or(0): nothing is skipped when no character is
\* non-whitespace.
skip_whitespace(in) ==
    LET found == position([i \in DOMAIN in |-> not_ascii_whitespace(in[i])])
        skip_to == IF found # NONE THEN found ELSE 0
    IN  From(in, skip_to)

skip_char(in) == IF in = <<>> THEN in ELSE From(in, 1)

----------------------------------------------------------------------------
(* Public-key grammar                                                      *)

parse_public_key(in) ==
    LET kt == parse_key_type(in)
        ek == parse_encoded_key(skip_whitespace(kt.rest))
    IN  IF ~kt.ok THEN Err(kt.err)
        ELSE IF ~ek.ok THEN Err(ek.err)
        ELSE Ok([key_type |-> kt.val, encoded_key |-> ek.val], ek.rest)

----------------------------------------------------------------------------
(* Option grammar                                                          *)

\* Option<String>
None == [some |-> FALSE, v |-> <<>>]

Some(v) == [some |-> TRUE, v |-> v]

not_option_name_char(c) == ~is_ascii_alphanumeric(c) /\ c # "-"

parse_option_name(in) ==
    LET found == position([i \in DOMAIN in |-> not_option_name_char(in[i])])
        name_end == IF found # NONE THEN found ELSE Len(in)
    IN  Ok(UpTo(in, name_end), From(in, name_end))

\* A backslash always escapes what follows, an escaped backslash too.
next_last_char_slash_mutant(last_char_slash, c) == c = BACKSLASH

\* last_char_slash = !last_char_slash && c == &'\\'
next_last_char_slash(last_char_slash, c) == ~last_char_slash /\ c = BACKSLASH

\* The loop of parse_option_value from zero-based index ind on: the index of
\* the first quote met with last_char_slash unset, or NONE.
RECURSIVE closing_quote(_, _, _)
closing_quote(in, ind, last_char_slash) ==
    IF ind >= Len(in) THEN NONE
    ELSE IF in[ind + 1] = QUOTE /\ ~last_char_slash THEN ind
    ELSE closing_quote(in, ind + 1, next_last_char_slash(last_char_slash, in[ind + 1]))

\* A variant that lets a value without closing quote run to the end of input.
parse_option_value_mutant(in0) ==
    IF get(in0, 0) # QUOTE
    THEN Err(Unmatched(MsgOptionValueFirst, <<>>))
    ELSE LET in == skip_char(in0)
             ind == closing_quote(in, 0, FALSE)
         IN  IF ind # NONE
             THEN Ok(UpTo(in, ind), skip_char(From(in, ind)))
             ELSE Ok(in, <<>>)

parse_option_value(in0) ==
    IF get(in0, 0) # QUOTE
    THEN Err(Unmatched(MsgOptionValueFirst, <<>>))
    ELSE LET in == skip_char(in0)
             ind == closing_quote(in, 0, FALSE)
         IN  IF ind # NONE
             THEN Ok(UpTo(in, ind), skip_char(From(in, ind)))
             ELSE Err(Incomplete)

\* The while loop of parse_options: one iteration per call.
RECURSIVE parse_options_loop(_, _)
parse_options_loop(options, leftovers) ==
    IF leftovers = <<>> THEN Ok(options, leftovers)
    ELSE LET option_name == parse_option_name(leftovers)
             name == option_name.val
             after_name == option_name.rest
             has_value == get(after_name, 0) = "="
             value == parse_option_value(From(after_name, 1))
             after_option == IF has_value THEN value.rest ELSE after_name
             pushed == Append(options,
                              <<name, IF has_value THEN Some(value.val) ELSE None>>)
         IN  IF has_value /\ ~value.ok THEN Err(value.err)
             ELSE IF get(after_option, 0) = ","
                  THEN parse_options_loop(pushed, skip_char(after_option))
                  ELSE Ok(pushed, after_option)

parse_options(in) == parse_options_loop(<<>>, in)

----------------------------------------------------------------------------
(* The option grammar on its own                                           *)

MaxOptionLen == 6

OptionUnits == {<<"a">>, <<"=">>, <<QUOTE>>, <<BACKSLASH>>, <<",">>, <<SP>>}

InitOptions ==
    /\ input \in Texts(OptionUnits, MaxOptionLen)
    /\ src = "NoSrc"
    /\ pc = "options"
    /\ result = "none"

OptionValue ==
    /\ pc = "options"
    /\ result' = [op |-> "parse_option_value", out |-> parse_option_value(input)]
    /\ pc' = "done"
    /\ UNCHANGED <<input, src>>

Options ==
    /\ pc = "options"
    /\ result' = [op |-> "parse_options", out |-> parse_options(input)]
    /\ pc' = "done"
    /\ UNCHANGED <<input, src>>

NextOptions == OptionValue \/ Options

SpecOptions == InitOptions /\ [][NextOptions]_vars

\* The quote at (one-based) position q of s is escaped: the run of
\* backslashes that ends right before it has odd length.
BackslashRun(s, q) ==
    CHOOSE k \in 0..(q - 1) :
        /\ \A j \in (q - k)..(q - 1) : s[j] = BACKSLASH
        /\ (q - k - 1 >= 1 => s[q - k - 1] # BACKSLASH)

UnescapedQuoteAt(s, q) == s[q] = QUOTE /\ BackslashRun(s, q) % 2 = 0

HasUnescapedQuote(s) == \E q \in DOMAIN s : UnescapedQuoteAt(s, q)

FirstUnescapedQuote(s) ==
    CHOOSE q \in DOMAIN s :
        UnescapedQuoteAt(s, q) /\ \A r \in 1..(q - 1) : ~UnescapedQuoteAt(s, r)

\* The length of the run of option-name characters s starts with.
NameRun(s) ==
    CHOOSE n \in 0..Len(s) :
        /\ \A i \in 1..n : ~not_option_name_char(s[i])
        /\ (n < Len(s) => not_option_name_char(s[n + 1]))

\* C6: the value of an option written name="v" is Some(v), v being exactly the
\* text between the opening quote and the first unescaped closing quote (a
\* backslash escapes exactly the next character), escapes left as written; an
\* empty quoted value is Some("") and not None.
C6_OptionValueVerbatim ==
    pc = "done" =>
        /\ (result.op = "parse_option_value" /\ get(input, 0) = QUOTE
              /\ HasUnescapedQuote(Tail(input))) =>
              LET body == Tail(input)
                  q == FirstUnescapedQuote(body)
              IN  result.out = Ok(SubSeq(body, 1, q - 1), SubSeq(body, q + 1, Len(body)))
        /\ (result.op = "parse_options" /\ result.out.ok) =>
              LET n == NameRun(input)
                  body == SubSeq(input, n + 3, Len(input))
              IN  (get(input, n) = "=" /\ get(input, n + 1) = QUOTE) =>
                      /\ HasUnescapedQuote(body)
                      /\ result.out.val[1] =
                            <<SubSeq(input, 1, n),
                              Some(SubSeq(body, 1, FirstUnescapedQuote(body) - 1))>>

\* A named option whose value holds an escaped quote was parsed.
C6_Witness ==
    /\ pc = "done"
    /\ result.op = "parse_options"
    /\ result.out.ok
    /\ Len(result.out.val) >= 1
    /\ result.out.val[1] = <<(<<"a">>), Some(<<BACKSLASH, QUOTE>>)>>

----------------------------------------------------------------------------
(* Comment extraction                                                      *)

is_line_feed(c) == c = LF

\* (String, &[char])
parse_comments(in) ==
    LET found == position([i \in DOMAIN in |-> is_line_feed(in[i])])
        comment_end0 == IF found # NONE THEN found ELSE Len(in)
        remainder == From(in, comment_end0)
        \* Windows CR-LF handling
        comment_end == IF comment_end0 >= 2 /\ get(in, comment_end0 - 2) = CR
                       THEN comment_end0 - 1
                       ELSE comment_end0
    IN  <<UpTo(in, comment_end), remainder>>

----------------------------------------------------------------------------
(* KeyAuthorization::parse: the composite line parser                      *)

MsgNoKeyAfterOptions == "Could not find a valid public key after the options."

MsgNoOptionsNorKey == "Could not find a valid options string, or public key."

KeyAuthorization(options, key, comments) ==
    [ok |-> TRUE, options |-> options, key |-> key, comments |-> comments]

\* A variant that returns early when the first attempt fails (as with
\* parse_public_key(chars)?), so that the option path is never tried.
TryOptionless_mutant ==
    /\ pc = "TryOptionless"
    /\ LET public_key_result == parse_public_key(input)
       IN  IF public_key_result.ok
           THEN /\ result' = KeyAuthorization(
                                 <<>>, public_key_result.val,
                                 parse_comments(skip_whitespace(public_key_result.rest))[1])
                /\ pc' = "Resolved"
           ELSE /\ result' = [ok |-> FALSE, err |-> MsgNoOptionsNorKey]
                /\ pc' = "Failed"
    /\ UNCHANGED <<input, src>>

\* if let Ok((public_key, remainder)) = parse_public_key(chars)
TryOptionless ==
    /\ pc = "TryOptionless"
    /\ LET public_key_result == parse_public_key(input)
       IN  IF public_key_result.ok
           THEN /\ result' = KeyAuthorization(
                                 <<>>, public_key_result.val,
                                 parse_comments(skip_whitespace(public_key_result.rest))[1])
                /\ pc' = "Resolved"
           ELSE /\ pc' = "TryOptioned"
                /\ UNCHANGED result
    /\ UNCHANGED <<input, src>>

\* else if let Ok((options, remainder)) = parse_options(chars) ... else ...
TryOptioned ==
    /\ pc = "TryOptioned"
    /\ LET options_result == parse_options(input)
           public_key_result == parse_public_key(skip_whitespace(options_result.rest))
       IN  IF options_result.ok
           THEN IF public_key_result.ok
                THEN /\ result' = KeyAuthorization(
                                      options_result.val, public_key_result.val,
                                      parse_comments(skip_whitespace(public_key_result.rest))[1])
                     /\ pc' = "Resolved"
                ELSE /\ result' = [ok |-> FALSE, err |-> MsgNoKeyAfterOptions]
                     /\ pc' = "Failed"
           ELSE /\ result' = [ok |-> FALSE, err |-> MsgNoOptionsNorKey]
                /\ pc' = "Failed"
    /\ UNCHANGED <<input, src>>

Next == TryOptionless \/ TryOptioned

----------------------------------------------------------------------------
(* parse_line on raw lines: an option part, a key-type token, a key part   *)
(* and a comment part, each varied in turn                                 *)

MaxLineOptionLen == 4

MaxKeyUnits == 4

MaxCommentLen == 4

LineOptionUnits == {<<"a">>, <<"-">>, <<"=">>, <<QUOTE>>, <<BACKSLASH>>, <<",">>}

KeyUnits == {<<"A", "A", "A", "A">>, <<"A">>, <<"=">>}

CommentUnits == {<<SP>>, <<"c">>, <<"=">>, <<CR>>, <<LF>>}

AAAA == <<"A", "A", "A", "A">>

OptionLines ==
    {o \o sep \o SSH_RSA \o <<SP>> \o AAAA :
        o \in Texts(LineOptionUnits, MaxLineOptionLen),
        sep \in {<<>>, <<SP>>}}

KeyLines ==
    {o \o kt \o lead \o k \o c :
        o \in {<<>>, <<"a", SP>>},
        kt \in {SSH_RSA, Cased(SSH_DSS, 1..3)},
        lead \in {<<>>, <<SP>>, <<SP, SP>>, <<TAB>>},
        k \in Texts(KeyUnits, MaxKeyUnits),
        c \in {<<>>, <<SP>>, <<SP, "c">>}}

CommentLines ==
    {o \o SSH_ED25519 \o <<SP>> \o AAAA \o c :
        o \in {<<>>, <<"a", SP>>},
        c \in Texts(CommentUnits, MaxCommentLen)}

Init ==
    /\ input \in OptionLines \cup KeyLines \cup CommentLines
    /\ src = "NoSrc"
    /\ pc = "TryOptionless"
    /\ result = "none"

Spec == Init /\ [][Next]_vars

IsSuffix(t, s) == Len(t) <= Len(s) /\ SubSeq(s, Len(s) - Len(t) + 1, Len(s)) = t

\* C3: a parsed line that ends in CR LF (its only line feed) and has a comment
\* that is not blank has as comments the comment text up to the carriage
\* return: the line ends with the comments followed by CR LF, so neither is
\* kept and nothing else is dropped.
C3_CrLfStripped ==
    (/\ pc = "Resolved"
     /\ \E j \in DOMAIN result.comments : ~is_ascii_whitespace(result.comments[j])
     /\ Len(input) >= 2
     /\ input[Len(input) - 1] = CR /\ input[Len(input)] = LF
     /\ \A i \in 1..(Len(input) - 1) : input[i] # LF)
        => IsSuffix(result.comments \o <<CR, LF>>, input)

\* C4: the comments of a parsed line are the text after the key with the
\* leading whitespace removed: they never start with a whitespace character
\* (and so are empty when only whitespace follows the key).
C4_CommentTrimmed ==
    (pc = "Resolved" /\ result.key.encoded_key # <<>>) =>
        (result.comments = <<>> \/ ~is_ascii_whitespace(result.comments[1]))

\* C5: every option name of a parsed line is non-empty and made of ASCII
\* alphanumerics and '-' only.
C5_OptionNameInvariant ==
    pc = "Resolved" =>
        \A i \in DOMAIN result.options :
            LET name == result.options[i][1]
            IN  /\ name # <<>>
                /\ \A j \in DOMAIN name : is_ascii_alphanumeric(name[j]) \/ name[j] = "-"

\* C7: the encoded key of a parsed line is made of base64-alphabet characters
\* and '=' only, and its length is a multiple of 4.
C7_EncodedKeyInvariant ==
    pc = "Resolved" =>
        LET k == result.key.encoded_key
        IN  /\ \A j \in DOMAIN k :
                   k[j] \in UpperSet \cup LowerSet \cup DigitSet \cup {"+", "/", "="}
            /\ Len(k) % 4 = 0

\* A line with options, a two-group key and a comment was parsed.
C7_Witness ==
    /\ pc = "Resolved"
    /\ result.options # <<>>
    /\ result.key.encoded_key = AAAA \o AAAA
    /\ result.comments = <<"c">>

\* A recognised key-type token (at the start of the line or after a space)
\* with nothing but whitespace after it.
KeyTypeThenOnlyWhitespace(s) ==
    \E e \in 1..Len(s), l \in {Len(n) : n \in KnownNames} :
        /\ l <= e
        /\ to_ascii_lowercase(SubSeq(s, e - l + 1, e)) \in KnownNames
        /\ (e - l = 0 \/ s[e - l] = SP)
        /\ \A i \in (e + 1)..Len(s) : is_ascii_whitespace(s[i])

\* C9: a line whose key-type token is followed only by whitespace or by
\* nothing is rejected, and no parsed line has an empty encoded key.
C9_MissingKeyRejected ==
    /\ (pc \in {"Resolved", "Failed"} /\ KeyTypeThenOnlyWhitespace(input))
          => pc = "Failed"
    /\ pc = "Resolved" => result.key.encoded_key # <<>>


----------------------------------------------------------------------------
(* parse_line on lines written from their components per the grammar       *)
(*   key-line = [ options WSP ] key-type WSP base64 [ WSP comment ]        *)

MaxOptions == 2

OptionNames == {<<"a">>, <<"n", "o", "-", "X", "1">>}

OptionValues ==
    {None, Some(<<>>), Some(<<"c", SP, "d">>), Some(<<BACKSLASH, QUOTE, ",">>)}

EncodedKeys ==
    {AAAA, <<"A", "+", "/", "9">> \o AAAA, <<"A", "A", "A", "=">>, <<"A", "A", "=", "=">>}

Comments ==
    {<<>>, <<"c">>, <<"c", SP, "d">>, <<"=", "c">>, <<"c", CR, "d">>, <<"#", QUOTE>>}

OptionLists ==
    UNION {[1..k -> OptionNames \X OptionValues] : k \in 0..MaxOptions}

write_option(o) ==
    o[1] \o (IF o[2].some THEN <<"=", QUOTE>> \o o[2].v \o <<QUOTE>> ELSE <<>>)

RECURSIVE write_options(_)
write_options(os) ==
    IF os = <<>> THEN <<>>
    ELSE IF Len(os) = 1 THEN write_option(os[1])
    ELSE write_option(os[1]) \o <<",">> \o write_options(Tail(os))

write_line(c) ==
    (IF c.options # <<>> THEN write_options(c.options) \o <<SP>> ELSE <<>>)
    \o KeyTypeName(c.key_type) \o <<SP>> \o c.encoded_key
    \o (IF c.comments # <<>> THEN <<SP>> \o c.comments ELSE <<>>)

InitRoundTrip ==
    /\ src \in [options : OptionLists, key_type : KeyType,
                encoded_key : EncodedKeys, comments : Comments]
    /\ input = write_line(src)
    /\ pc = "TryOptionless"
    /\ result = "none"

SpecRoundTrip == InitRoundTrip /\ [][Next]_vars

\* C1: a line written from an option list, a key type, a base64 token and a
\* comment parses, and to exactly those components.
C1_RoundTrip ==
    /\ pc # "Failed"
    /\ pc = "Resolved" =>
          result = KeyAuthorization(
                       src.options,
                       [key_type |-> src.key_type, encoded_key |-> src.encoded_key],
                       src.comments)

----------------------------------------------------------------------------
(* KeyAuthorization::parse as one function of the line                     *)

KeyAuthorization_parse(chars) ==
    LET public_key_result == parse_public_key(chars)
        options_result == parse_options(chars)
        after_options == parse_public_key(skip_whitespace(options_result.rest))
    IN  IF public_key_result.ok
        THEN KeyAuthorization(
                 <<>>, public_key_result.val,
                 parse_comments(skip_whitespace(public_key_result.rest))[1])
        ELSE IF options_result.ok
        THEN IF after_options.ok
             THEN KeyAuthorization(
                      options_result.val, after_options.val,
                      parse_comments(skip_whitespace(after_options.rest))[1])
             ELSE [ok |-> FALSE, err |-> MsgNoKeyAfterOptions]
        ELSE [ok |-> FALSE, err |-> MsgNoOptionsNorKey]

----------------------------------------------------------------------------
(* KeysFile::from_str: the file driver                                     *)

\* str::lines: the text cut at each line feed, a carriage return right
\* before the line feed dropped with it; no last line after a final line feed.
RECURSIVE lines(_)
lines(s) ==
    IF s = <<>> THEN <<>>
    ELSE LET nl == position([i \in DOMAIN s |-> is_line_feed(s[i])])
             raw == UpTo(s, nl)
             line == IF raw # <<>> /\ raw[Len(raw)] = CR
                     THEN UpTo(raw, Len(raw) - 1)
                     ELSE raw
         IN  IF nl = NONE THEN <<s>>
             ELSE <<line>> \o lines(From(s, nl + 1))

\* line.starts_with('#') || line.chars().all(|c| c.is_ascii_whitespace())
is_comment_line(line) ==
    get(line, 0) = "#" \/ \A i \in DOMAIN line : is_ascii_whitespace(line[i])

\* KeysFileLine
Comment(text) == [tag |-> "Comment", text |-> text]

Key(key) == [tag |-> "Key", key |-> key]

\* format!("parsing failed on line {}: {}", i, e)
LineParseFailure(i, e) == [ok |-> FALSE, err |-> [line |-> i, msg |-> e]]

\* Comment lines skipped instead of kept.
push_comment_mutant(file_lines, line) == file_lines

\* lines.push(KeysFileLine::Comment(line.to_owned()))
push_comment(file_lines, line) == Append(file_lines, Comment(line))

\* The line number reported counted from one.
failed_line_index_mutant(i) == i + 1

\* The index reported is the one enumerate() gives the line.
failed_line_index(i) == i

\* One iteration of the loop on a comment line; result.i lines are done.
FileComment ==
    /\ pc = "FileLoop"
    /\ result.i < Len(lines(input))
    /\ LET line == lines(input)[result.i + 1]
       IN  /\ is_comment_line(line)
           /\ result' = [i |-> result.i + 1,
                         lines |-> push_comment(result.lines, line)]
    /\ UNCHANGED <<input, src, pc>>

\* One iteration on a line that parses.
FileKey ==
    /\ pc = "FileLoop"
    /\ result.i < Len(lines(input))
    /\ LET line == lines(input)[result.i + 1]
           parsed == KeyAuthorization_parse(line)
       IN  /\ ~is_comment_line(line)
           /\ parsed.ok
           /\ result' = [i |-> result.i + 1,
                         lines |-> Append(result.lines, Key(parsed))]
    /\ UNCHANGED <<input, src, pc>>

\* The iteration on a line that does not parse: return Err at once.
FileFail ==
    /\ pc = "FileLoop"
    /\ result.i < Len(lines(input))
    /\ LET line == lines(input)[result.i + 1]
           parsed == KeyAuthorization_parse(line)
       IN  /\ ~is_comment_line(line)
           /\ ~parsed.ok
           /\ result' = LineParseFailure(failed_line_index(result.i), parsed.err)
    /\ pc' = "FileFailed"
    /\ UNCHANGED <<input, src>>

\* Ok(Self { lines })
FileReturn ==
    /\ pc = "FileLoop"
    /\ result.i = Len(lines(input))
    /\ result' = [ok |-> TRUE, lines |-> result.lines]
    /\ pc' = "FileDone"
    /\ UNCHANGED <<input, src>>

NextFile == FileComment \/ FileKey \/ FileFail \/ FileReturn

----------------------------------------------------------------------------
(* parse_file on files written from their lines: every line followed by    *)
(* the file's line ending, the last one possibly not                       *)

MaxLines == 3

FileLineTexts ==
    {<<>>, <<SP, TAB>>, <<"#", "c">>,
     SSH_RSA \o <<SP>> \o AAAA,
     <<"a", SP>> \o SSH_RSA \o <<SP>> \o AAAA \o <<SP, "c">>,
     SSH_RSA \o <<SP, "A", "A", "A">>}

LineEndings == {<<LF>>, <<CR, LF>>}

RECURSIVE write_file(_, _, _)
write_file(ls, ending, last_ended) ==
    IF ls = <<>> THEN <<>>
    ELSE IF Len(ls) = 1 THEN ls[1] \o (IF last_ended THEN ending ELSE <<>>)
    ELSE ls[1] \o ending \o write_file(Tail(ls), ending, last_ended)

InitFile ==
    /\ src \in UNION {[1..k -> FileLineTexts] : k \in 0..MaxLines}
    /\ \E ending \in LineEndings, last_ended \in BOOLEAN :
          /\ (~last_ended => src # <<>> /\ src[Len(src)] # <<>>)
          /\ input = write_file(src, ending, last_ended)
    /\ pc = "FileLoop"
    /\ result = [i |-> 0, lines |-> <<>>]

SpecFile == InitFile /\ [][NextFile]_vars

\* A line that is empty, blank or starts with '#'.
IsCommentText(l) ==
    l = <<>> \/ l[1] = "#" \/ \A j \in DOMAIN l : l[j] \in {SP, TAB, LF, FF, CR}

\* C11: a successful parse_file has one entry per line of the file, in order:
\* Comment with the line's text for a line that is empty, blank or starts with
\* '#', and otherwise Key with what parse_line returns for the line.
C11_LinesOneToOne ==
    pc = "FileDone" =>
        /\ result.ok
        /\ Len(result.lines) = Len(src)
        /\ \A i \in DOMAIN src :
              IF IsCommentText(src[i])
              THEN result.lines[i] = Comment(src[i])
              ELSE /\ KeyAuthorization_parse(src[i]).ok
                   /\ result.lines[i] = Key(KeyAuthorization_parse(src[i]))

\* A file of a '#' line, an empty line and a key line, ended by CR LF, parsed.
C11_Witness ==
    /\ pc = "FileDone"
    /\ \E i \in DOMAIN input : input[i] = CR
    /\ Len(result.lines) = 3
    /\ result.lines[1] = Comment(<<"#", "c">>)
    /\ result.lines[2] = Comment(<<>>)
    /\ result.lines[3].tag = "Key"
    /\ result.lines[3].key.options # <<>>

\* A line that is no comment and that parse_line rejects, and the first such
\* line of ls (one-based).
LineFails(l) == ~IsCommentText(l) /\ ~KeyAuthorization_parse(l).ok

FirstFailing(ls) ==
    CHOOSE i \in DOMAIN ls : LineFails(ls[i]) /\ \A j \in 1..(i - 1) : ~LineFails(ls[j])

\* C12: when a line that is no comment fails parse_line, parse_file returns
\* an error and no KeysFile; the error carries the zero-based index (comment
\* and blank lines counted) of the first such line and that line's message,
\* whatever the lines after it are.
C12_FailFast ==
    /\ (pc \in {"FileDone", "FileFailed"} /\ \E i \in DOMAIN src : LineFails(src[i])) =>
          /\ pc = "FileFailed"
          /\ result = LineParseFailure(
                          FirstFailing(src) - 1,
                          KeyAuthorization_parse(src[FirstFailing(src)]).err)
    /\ (pc = "FileLoop" /\ \E i \in DOMAIN src : LineFails(src[i])) =>
          result.i < FirstFailing(src)

\* parse_file failed on the second of three lines, after a comment line and
\* before a line that parses.
C12_Witness ==
    /\ pc = "FileFailed"
    /\ Len(src) = 3
    /\ IsCommentText(src[1])
    /\ LineFails(src[2])
    /\ ~IsCommentText(src[3]) /\ ~LineFails(src[3])
    /\ result.err.line = 1

----------------------------------------------------------------------------
(* Option path of the line parser                                          *)

\* C13: the options of a line parsed through the option path are the options
\* written in the line, one entry each, in source order and with duplicates
\* kept: written back in order they give the text the line starts with, and no
\* entry stands for no text at all (an empty name without a value).
C13_OptionsAsWritten ==
    (pc = "Resolved" /\ result.options # <<>>) =>
        /\ LET written == write_options(result.options)
           IN  Len(written) <= Len(input) /\ UpTo(input, Len(written)) = written
        /\ \A i \in DOMAIN result.options : result.options[i] # <<<<>>, None>>

\* A recognised key-type token followed by a space starts right after the
\* (one-based) position k of s.
KeyTokenAfter(s, k) ==
    \E n \in KnownNames :
        /\ k + Len(n) < Len(s)
        /\ to_ascii_lowercase(SubSeq(s, k + 1, k + Len(n))) = n
        /\ s[k + Len(n) + 1] = SP

\* C14: a line that starts with an option name and in which a quote, with no
\* whitespace anywhere before it, is directly followed by the key-type token
\* (the option list runs into the key without whitespace) is rejected.
C14_WhitespaceBeforeKey ==
    (/\ pc \in {"Resolved", "Failed"}
     /\ NameRun(input) >= 1
     /\ \E k \in 2..Len(input) :
            /\ input[k] = QUOTE
            /\ \A i \in 1..k : ~is_ascii_whitespace(input[i])
            /\ KeyTokenAfter(input, k))
        => pc = "Failed"

\* C15: the public-key grammar is tried first, at the start of the line; when
\* it succeeds the line is resolved at once with empty options; the option
\* path is entered only when it fails; the option path ends in Resolved or
\* Failed, and nothing is tried after either.
C15_TwoPathDisambiguation ==
    [][/\ pc \in {"TryOptionless", "TryOptioned"}
       /\ pc = "TryOptionless" =>
              IF parse_public_key(input).ok
              THEN pc' = "Resolved" /\ result'.ok /\ result'.options = <<>>
              ELSE pc' = "TryOptioned"
       /\ pc = "TryOptioned" =>
              ~parse_public_key(input).ok /\ pc' \in {"Resolved", "Failed"}]_vars

\* A line that the first attempt rejected was resolved by the option path.
C15_Witness ==
    /\ pc = "Resolved"
    /\ ~parse_public_key(input).ok
    /\ result.options # <<>>
    /\ result.key.encoded_key # <<>>
    /\ result.comments # <<>>

\* The option list s starts with has an option whose '=' is not followed by a
\* quoted value: the opening quote is missing, or no unescaped quote closes it.
RECURSIVE OptionListMalformed(_)
OptionListMalformed(s) ==
    LET n == NameRun(s)
        body == From(s, n + 2)
        after_value == From(body, FirstUnescapedQuote(body))
    IN  IF s = <<>> THEN FALSE
        ELSE IF get(s, n) = ","
        THEN OptionListMalformed(From(s, n + 1))
        ELSE IF get(s, n) # "=" THEN FALSE
        ELSE IF get(s, n + 1) # QUOTE \/ ~HasUnescapedQuote(body) THEN TRUE
        ELSE IF get(after_value, 0) = "," THEN OptionListMalformed(From(after_value, 1))
        ELSE FALSE

\* C16: a rejected line carries the neither-options-nor-key error exactly when
\* its option list is malformed, and the no-key-after-the-options error
\* otherwise (the option list parsed and no public key followed it).
C16_ErrorDiscrimination ==
    pc = "Failed" =>
        result.err = IF OptionListMalformed(input)
                     THEN MsgNoOptionsNorKey
                     ELSE MsgNoKeyAfterOptions

\* A line whose option value a=" is never closed was rejected.
C16_Witness ==
    /\ pc = "Failed"
    /\ Len(input) >= 3
    /\ UpTo(input, 3) = <<"a", "=", QUOTE>>
    /\ ~HasUnescapedQuote(From(input, 3))
    /\ result.err = MsgNoOptionsNorKey

\* C17: a successful base64 parse returns a prefix of the input that is
\* followed by whitespace or by nothing; and a run of base64 characters
\* directly followed by a character that is neither whitespace nor '=' fails
\* with the trailing-character error that names that character.
C17_NoSilentTruncation ==
    pc = "done" =>
        /\ result.ok =>
               /\ result.val \o result.rest = input
               /\ (result.rest = <<>> \/ is_ascii_whitespace(result.rest[1]))
        /\ \A n \in 1..(Len(input) - 1) :
               (/\ \A i \in 1..n : is_base64_char(input[i])
                /\ ~is_base64_char(input[n + 1])
                /\ ~is_ascii_whitespace(input[n + 1])
                /\ input[n + 1] # "=")
                   => result = Err(Unmatched(MsgTrailingChar, <<input[n + 1]>>))

====
